---- MODULE Spec2Model ----
(***************************************************************************)
(* Model of the multi-currency dip trader (bot/trader.py) together with    *)
(* the parts of the exchange gateway (utils/binance_client.py) and of the  *)
(* pricing helpers (utils/calculations.py) that decide its behaviour.      *)
(*                                                                         *)
(* Numbers.  A price is an exact rational [n |-> numerator, d |->          *)
(* denominator] expressed in ticks, one tick being 10^-PRICE_PRECISION of  *)
(* the quote currency, so that round_price rounds to a whole number of     *)
(* ticks.  A quantity is a natural number of units, one unit being         *)
(* 10^-QTY_PRECISION of the base asset, so that round_quantity rounds to a *)
(* whole number of units.  Python's round() rounds halves to even.         *)
(***************************************************************************)
EXTENDS Integers, Sequences, FiniteSets, TLC

(***************************************************************************)
(* Bounds of the model.                                                    *)
(***************************************************************************)
MaxFills == 2          \* longest fill list an order response carries
MaxFillQty == 1        \* largest quantity (in units) of one fill
MaxLot == 3            \* largest min, max and step (in units) of a lot constraint
MaxEntry == 120        \* largest entry price numerator (in ticks) given to the thresholds

(***************************************************************************)
(* Configuration (config/settings.py), read once at start-up.              *)
(***************************************************************************)
SYMBOLS == <<"BTCUSDT", "ETHUSDT">>
MIN_TRADE_USD == 150   \* in ticks * units
SL_PERCENT == 5
TP_PERCENT == 10
AUTO_CLOSE_PERCENT == 2
DIP_TRIGGER_PERCENT == 5

None == "None"
EmptyDict == [k \in {} |-> 0]
NumSymbols == Len(SYMBOLS)
SymbolSet == {SYMBOLS[i] : i \in 1..NumSymbols}

(***************************************************************************)
(* What the exchange can answer.                                           *)
(***************************************************************************)
Prices == {94, 96, 100, 105, 111}
BuyPrices == {96, 105}      \* answers to the price query inside market_buy
StartPrices == {100, 105}   \* answers to the price queries of start()
FillPrices == {94, 100}
PriceOutcome == {[ok |-> TRUE, v |-> p] : p \in Prices} \cup {[ok |-> FALSE, v |-> 0]}
\* a fill of quantity zero adds nothing to either sum, so one price suffices for it
Fill == [qty : 1..MaxFillQty, price : FillPrices] \cup {[qty |-> 0, price |-> 94]}
FillSeqs == UNION {[1..k -> Fill] : k \in 0..MaxFills}
OrderOutcome == {[raised |-> FALSE, fills |-> f] : f \in FillSeqs}
                   \cup {[raised |-> TRUE, fills |-> <<>>]}
CallOutcome == {"ok", "raise"}
\* LOT_SIZE constraints in units; the first is the fallback of
\* _load_symbol_filters (min 0, max 0, step one whole coin = 10 units)
DefaultFilter == [min |-> 0, max |-> 0, step |-> 10]
LotFilters == {DefaultFilter, [min |-> 2, max |-> 5, step |-> 1]}
\* the constraint tables the gateway can hold after construction: the load
\* failed for exactly one of the two symbols
FilterConfigs == {f \in [{"BTCUSDT", "ETHUSDT"} -> LotFilters] :
                     (f["BTCUSDT"] = DefaultFilter) # (f["ETHUSDT"] = DefaultFilter)}

(***************************************************************************)
(* Exact arithmetic on prices.                                             *)
(***************************************************************************)
RECURSIVE GCD(_, _)
GCD(a, b) == IF b = 0 THEN a ELSE GCD(b, a % b)

Rat(n, d) == LET g == GCD(n, d) IN
             IF n = 0 THEN [n |-> 0, d |-> 1] ELSE [n |-> n \div g, d |-> d \div g]

Whole(p) == [n |-> p, d |-> 1]

RLt(a, b) == a.n * b.d < b.n * a.d
RLe(a, b) == a.n * b.d <= b.n * a.d
RGt(a, b) == RLt(b, a)
RGe(a, b) == RLe(b, a)

\* round(n/d): nearest integer, halves to the even neighbour
RoundHalfEven(n, d) ==
    LET q == n \div d
        r == n % d
    IN IF 2 * r < d THEN q
       ELSE IF 2 * r > d THEN q + 1
       ELSE IF q % 2 = 0 THEN q ELSE q + 1

round_price(price) == Whole(RoundHalfEven(price.n, price.d))

round_quantity(n, d) == RoundHalfEven(n, d)

calculate_sl_price(entry_price) ==
    round_price(Rat(entry_price.n * (100 - SL_PERCENT), entry_price.d * 100))

calculate_tp_price(entry_price) ==
    round_price(Rat(entry_price.n * (100 + TP_PERCENT), entry_price.d * 100))

calculate_auto_close_price(entry_price) ==
    round_price(Rat(entry_price.n * (100 + AUTO_CLOSE_PERCENT), entry_price.d * 100))

\* calculate_dip_price taking the percentage itself instead of its complement
calculate_dip_price_NoComplement(current_price) ==
    round_price(Rat(current_price.n * DIP_TRIGGER_PERCENT, current_price.d * 100))

calculate_dip_price(current_price) ==
    round_price(Rat(current_price.n * (100 - DIP_TRIGGER_PERCENT), current_price.d * 100))

\* usdt_amount / price, rounded to a whole number of units
calculate_order_quantity(usdt_amount, price) ==
    round_quantity(usdt_amount * price.d, price.n)

RECURSIVE SumQty(_)
SumQty(fills) ==
    IF fills = <<>> THEN 0 ELSE Head(fills).qty + SumQty(Tail(fills))

RECURSIVE SumValue(_)
SumValue(fills) ==
    IF fills = <<>> THEN 0
    ELSE Head(fills).qty * Head(fills).price + SumValue(Tail(fills))

(***************************************************************************)
(* State.  in_trade, active_symbol, trade and reference_prices are the     *)
(* fields of Trader; filters is BinanceClient._filters; phase is the       *)
(* position of the process (constructed, running the scheduler, or dead    *)
(* because start() raised); cycle is the record of what the most recent    *)
(* _trade_cycle did (calls made to the gateway and the notifier).  call is  *)
(* the single call in progress in the specifications that follow one       *)
(* operation step by step (the retry wrapper, the notifier, the loading of *)
(* the lot constraints, the scheduler's job); Spec, which takes a whole    *)
(* cycle as one step, leaves it at NoCall.                                 *)
(***************************************************************************)
VARIABLES in_trade, active_symbol, trade, reference_prices, filters, phase, cycle, call

vars == <<in_trade, active_symbol, trade, reference_prices, filters, phase, cycle, call>>

NoCall == [op |-> "none"]

NewCycle(mode) ==
    [mode0 |-> mode,          \* mode at the start of the cycle
     fetched |-> <<>>,        \* symbols whose price the controller asked for
     prices |-> <<>>,         \* prices returned to the controller, in order
     opens |-> <<>>,          \* symbols passed to _open_trade
     refs_at_open |-> EmptyDict, \* reference_prices when _open_trade was entered
     cancels |-> <<>>,        \* symbols passed to cancel_open_orders
     buy |-> "none",          \* how market_buy ended
     reason |-> "none",       \* close reason selected by the monitor
     sells |-> <<>>,          \* (symbol, quantity) passed to market_sell
     sell |-> "none",         \* how market_sell ended
     orders |-> <<>>,         \* orders submitted to the exchange
     fills |-> <<>>,          \* fills of the order the exchange returned
     exit_price |-> Whole(0), \* exit price computed by _close_trade
     old_ref |-> Whole(0),    \* reference price that the close overwrote
     balance |-> "none",      \* how get_balance ended
     notes |-> <<>>,          \* notifications handed to the notifier
     raised |-> FALSE]        \* an exception reached _trade_cycle's handler

\* the controller as one value: the Trader fields plus the cycle record
Cur == [in_trade |-> in_trade, active_symbol |-> active_symbol, trade |-> trade,
        reference_prices |-> reference_prices, log |-> cycle]

(***************************************************************************)
(* Exchange gateway (utils/binance_client.py), one call = its final        *)
(* outcome after the retry wrapper.                                        *)
(***************************************************************************)
\* get_current_price for the i-th query of the cycle; an unanswered query fails
PriceAnswer(env, i) ==
    IF i \in DOMAIN env.px THEN env.px[i] ELSE [ok |-> FALSE, v |-> 0]

\* Decimal.quantize(step_size, ROUND_DOWN) cuts a value to the decimal places
\* the step is written with; it does not make it a multiple of the step.
\* The exchange writes LOT_SIZE values with eight decimals, finer than a
\* unit; the fallback step is Decimal("1"), a whole coin.
Quantum(f) == IF f = DefaultFilter THEN DefaultFilter.step ELSE 1

quantize(x, f) == (x \div Quantum(f)) * Quantum(f)

\* _apply_lot_size: floor to the step, reject below min, clamp to max, quantize
apply_lot_size(f, qty) ==
    LET rounded == (qty \div f.step) * f.step IN
    IF rounded < f.min THEN [ok |-> FALSE, qty |-> 0]
    ELSE IF f.max > 0 /\ rounded > f.max THEN [ok |-> TRUE, qty |-> quantize(f.max, f)]
    ELSE [ok |-> TRUE, qty |-> quantize(rounded, f)]

\* market_buy: "raise" | "none" (returns None) | "order" (returns the order)
market_buy(f, usdt_amount, env) ==
    IF ~env.buy_px.ok THEN [kind |-> "raise", fills |-> <<>>, submitted |-> <<>>]
    ELSE LET raw_qty == calculate_order_quantity(usdt_amount, Whole(env.buy_px.v))
             lot == apply_lot_size(f, raw_qty)
         IN IF ~lot.ok THEN [kind |-> "none", fills |-> <<>>, submitted |-> <<>>]
            ELSE IF env.order.raised
                 THEN [kind |-> "raise", fills |-> <<>>, submitted |-> <<lot.qty>>]
                 ELSE [kind |-> "order", fills |-> env.order.fills, submitted |-> <<lot.qty>>]

\* market_sell: same shape as market_buy
market_sell(f, quantity, env) ==
    LET lot == apply_lot_size(f, quantity) IN
    IF ~lot.ok THEN [kind |-> "none", fills |-> <<>>, submitted |-> <<>>]
    ELSE IF env.order.raised
         THEN [kind |-> "raise", fills |-> <<>>, submitted |-> <<lot.qty>>]
         ELSE [kind |-> "order", fills |-> env.order.fills, submitted |-> <<lot.qty>>]

(***************************************************************************)
(* Trade controller (bot/trader.py).  Every operator takes the controller *)
(* value st and the exchange's answers env and returns the controller     *)
(* value after the call.                                                   *)
(***************************************************************************)
\* fill-quantity-weighted average price of a non-empty fill list
AveragePrice(fills) == Rat(SumValue(fills), SumQty(fills))

OutcomeOf(r) ==
    IF r.kind = "raise" THEN "raised"
    ELSE IF r.kind = "none" THEN "no_order"
    ELSE IF r.fills = <<>> THEN "empty"
    ELSE IF SumQty(r.fills) = 0 THEN "zero_qty"
    ELSE "filled"

\* SetTrade without the call of notify_new_trade (lines 122-124)
SetTrade_NoNotification(st, symbol, total_qty, entry_price) ==
    LET sl_price == calculate_sl_price(entry_price)
        tp_price == calculate_tp_price(entry_price)
        auto_close_price == calculate_auto_close_price(entry_price)
    IN [st EXCEPT !.trade = [qty |-> total_qty,
                             entry_price |-> entry_price,
                             sl_price |-> sl_price,
                             tp_price |-> tp_price,
                             auto_close_price |-> auto_close_price],
                  !.in_trade = TRUE,
                  !.active_symbol = symbol]

\* _open_trade, lines 107-124: the state after a buy that produced an entry price
SetTrade(st, symbol, total_qty, entry_price) ==
    LET sl_price == calculate_sl_price(entry_price)
        tp_price == calculate_tp_price(entry_price)
        auto_close_price == calculate_auto_close_price(entry_price)
    IN [st EXCEPT !.trade = [qty |-> total_qty,
                             entry_price |-> entry_price,
                             sl_price |-> sl_price,
                             tp_price |-> tp_price,
                             auto_close_price |-> auto_close_price],
                  !.in_trade = TRUE,
                  !.active_symbol = symbol,
                  !.log.notes = Append(@, [kind |-> "New Trade", symbol |-> symbol])]

\* ProcessBuy without the check of the entry price (lines 102-104)
ProcessBuy_NoEntryCheck(st, symbol, fills) ==
    IF fills = <<>> THEN st
    ELSE LET total_qty == SumQty(fills)
             total_spent == SumValue(fills)
             entry_price == IF total_qty # 0 THEN Rat(total_spent, total_qty) ELSE Whole(0)
         IN SetTrade(st, symbol, total_qty, entry_price)

\* _open_trade, lines 92-104: what the returned order leads to
ProcessBuy(st, symbol, fills) ==
    IF fills = <<>> THEN st
    ELSE LET total_qty == SumQty(fills)
             total_spent == SumValue(fills)
             entry_price == IF total_qty # 0 THEN Rat(total_spent, total_qty) ELSE Whole(0)
         IN IF entry_price.n = 0 THEN st
            ELSE SetTrade(st, symbol, total_qty, entry_price)

open_trade(st, symbol, env) ==
    LET s0 == [st EXCEPT !.log.opens = Append(@, symbol),
                         !.log.refs_at_open = st.reference_prices,
                         !.log.cancels = Append(@, symbol)]
    IN IF env.cancel = "raise" THEN [s0 EXCEPT !.log.buy = "not_called"]
       ELSE LET order == market_buy(filters[symbol], MIN_TRADE_USD, env)
                s1 == [s0 EXCEPT !.log.buy = OutcomeOf(order),
                                 !.log.fills = order.fills,
                                 !.log.orders = @ \o [i \in 1..Len(order.submitted) |->
                                     [side |-> "BUY", symbol |-> symbol, qty |-> order.submitted[i]]]]
            IN IF order.kind = "order" THEN ProcessBuy(s1, symbol, order.fills)
               ELSE s1   \* an exception, or None.get(...), caught at line 126

\* ResetState that leaves the reference price of the symbol alone (line 183)
ResetState_KeepReference(st, symbol, reason, exit_price) ==
    [st EXCEPT !.log.notes = Append(@, [kind |-> reason, symbol |-> symbol]),
               !.log.old_ref = st.reference_prices[symbol],
               !.in_trade = FALSE,
               !.active_symbol = None,
               !.trade = EmptyDict]

\* ResetState that forgets to clear active_symbol (line 185)
ResetState_KeepSymbol(st, symbol, reason, exit_price) ==
    [st EXCEPT !.log.notes = Append(@, [kind |-> reason, symbol |-> symbol]),
               !.log.old_ref = st.reference_prices[symbol],
               !.reference_prices = [@ EXCEPT ![symbol] = exit_price],
               !.in_trade = FALSE,
               !.trade = EmptyDict]

\* _close_trade, lines 174-187
ResetState(st, symbol, reason, exit_price) ==
    [st EXCEPT !.log.notes = Append(@, [kind |-> reason, symbol |-> symbol]),
               !.log.old_ref = st.reference_prices[symbol],
               !.reference_prices = [@ EXCEPT ![symbol] = exit_price],
               !.in_trade = FALSE,
               !.active_symbol = None,
               !.trade = EmptyDict]

\* ProcessSell without the early return on an empty fill list (lines 162-165)
ProcessSell_NoEmptyCheck(st, symbol, reason, trigger_price, fills, env) ==
    LET total_qty == SumQty(fills)
        total_return == SumValue(fills)
        exit_price == IF total_qty # 0 THEN Rat(total_return, total_qty)
                      ELSE trigger_price
        s1 == [st EXCEPT !.log.exit_price = exit_price,
                         !.log.balance = env.balance]
    IN IF env.balance = "raise" THEN s1
       ELSE ResetState(s1, symbol, reason, exit_price)

\* _close_trade, lines 161-172: what the returned order leads to
ProcessSell(st, symbol, reason, trigger_price, fills, env) ==
    IF fills = <<>> THEN st
    ELSE LET total_qty == SumQty(fills)
             total_return == SumValue(fills)
             exit_price == IF total_qty # 0 THEN Rat(total_return, total_qty)
                           ELSE trigger_price
             s1 == [st EXCEPT !.log.exit_price = exit_price,
                              !.log.balance = env.balance]
         IN IF env.balance = "raise" THEN s1
            ELSE ResetState(s1, symbol, reason, exit_price)

\* close_trade that writes the trigger price as reference price on entry
close_trade_ReferenceOnEntry(st, reason, trigger_price, env) ==
    LET symbol == st.active_symbol
        s0 == [st EXCEPT !.log.reason = reason,
                         !.log.cancels = Append(@, symbol),
                         !.reference_prices = [@ EXCEPT ![symbol] = trigger_price]]
    IN IF env.cancel = "raise" THEN [s0 EXCEPT !.log.sell = "not_called"]
       ELSE LET order == market_sell(filters[symbol], st.trade.qty, env)
                s1 == [s0 EXCEPT !.log.sell = OutcomeOf(order),
                                 !.log.fills = order.fills,
                                 !.log.sells = Append(@, [symbol |-> symbol, qty |-> st.trade.qty]),
                                 !.log.orders = @ \o [i \in 1..Len(order.submitted) |->
                                     [side |-> "SELL", symbol |-> symbol, qty |-> order.submitted[i]]]]
            IN IF order.kind = "order"
               THEN ProcessSell(s1, symbol, reason, trigger_price, order.fills, env)
               ELSE s1

\* _close_trade, lines 150-192
close_trade(st, reason, trigger_price, env) ==
    LET symbol == st.active_symbol
        s0 == [st EXCEPT !.log.reason = reason,
                         !.log.cancels = Append(@, symbol)]
    IN IF env.cancel = "raise" THEN [s0 EXCEPT !.log.sell = "not_called"]
       ELSE LET order == market_sell(filters[symbol], st.trade.qty, env)
                s1 == [s0 EXCEPT !.log.sell = OutcomeOf(order),
                                 !.log.fills = order.fills,
                                 !.log.sells = Append(@, [symbol |-> symbol, qty |-> st.trade.qty]),
                                 !.log.orders = @ \o [i \in 1..Len(order.submitted) |->
                                     [side |-> "SELL", symbol |-> symbol, qty |-> order.submitted[i]]]]
            IN IF order.kind = "order"
               THEN ProcessSell(s1, symbol, reason, trigger_price, order.fills, env)
               ELSE s1   \* an exception, or None.get(...), caught at line 189

\* CloseReason with the auto-close test moved before the take-profit test
CloseReason_AutoCloseFirst(t, current_price) ==
    IF RLe(current_price, t.sl_price) THEN "SL"
    ELSE IF RGe(current_price, t.auto_close_price) THEN "Auto-Close"
    ELSE IF RGe(current_price, t.tp_price) THEN "TP"
    ELSE "none"

\* _monitor_active_trade, lines 142-147: the close reason, or "none"
CloseReason(t, current_price) ==
    IF RLe(current_price, t.sl_price) THEN "SL"
    ELSE IF RGe(current_price, t.tp_price) THEN "TP"
    ELSE IF RGe(current_price, t.auto_close_price) THEN "Auto-Close"
    ELSE "none"

\* monitor_active_trade that gives the trade up when its price query raises
monitor_active_trade_DropsTradeOnError(st, env) ==
    LET po == PriceAnswer(env, 1) IN
    IF ~po.ok THEN [st EXCEPT !.log.fetched = Append(@, st.active_symbol),
                              !.log.raised = TRUE,
                              !.in_trade = FALSE,
                              !.active_symbol = None,
                              !.trade = EmptyDict]
    ELSE LET current_price == Whole(po.v)
             s0 == [st EXCEPT !.log.fetched = Append(@, st.active_symbol),
                              !.log.prices = Append(@, po.v)]
             reason == CloseReason(st.trade, current_price)
         IN IF reason = "none" THEN s0
            ELSE close_trade(s0, reason, current_price, env)

\* _monitor_active_trade, lines 132-147
monitor_active_trade(st, env) ==
    LET po == PriceAnswer(env, 1) IN
    IF ~po.ok THEN [st EXCEPT !.log.fetched = Append(@, st.active_symbol),
                              !.log.raised = TRUE]
    ELSE LET current_price == Whole(po.v)
             s0 == [st EXCEPT !.log.fetched = Append(@, st.active_symbol),
                              !.log.prices = Append(@, po.v)]
             reason == CloseReason(st.trade, current_price)
         IN IF reason = "none" THEN s0
            ELSE close_trade(s0, reason, current_price, env)

\* reference_prices.get(symbol, current_price)
RefOf(st, symbol, current_price) ==
    IF symbol \in DOMAIN st.reference_prices THEN st.reference_prices[symbol]
    ELSE current_price

\* TrailsUp with the comparison turned around
TrailsUp_Flipped(current_price, ref_price) == RLt(current_price, ref_price)

\* _scan_for_opportunities, line 72: the reference price trails the price upward
TrailsUp(current_price, ref_price) == RGt(current_price, ref_price)

\* ScanFrom going on to the next symbol when _open_trade came back without a
\* trade (the return of line 80 taken only after a successful open)
RECURSIVE ScanFrom_ContinuesAfterAbort(_, _, _)
ScanFrom_ContinuesAfterAbort(st, i, env) ==
    IF i > NumSymbols THEN st
    ELSE LET symbol == SYMBOLS[i]
             po == PriceAnswer(env, i)
         IN IF ~po.ok THEN [st EXCEPT !.log.fetched = Append(@, symbol),
                                       !.log.raised = TRUE]
            ELSE LET current_price == Whole(po.v)
                     ref_price == RefOf(st, symbol, current_price)
                     dip_trigger == calculate_dip_price(ref_price)
                     s0 == [st EXCEPT !.log.fetched = Append(@, symbol),
                                      !.log.prices = Append(@, po.v)]
                 IN IF TrailsUp(current_price, ref_price)
                    THEN ScanFrom_ContinuesAfterAbort([s0 EXCEPT !.reference_prices =
                                       (symbol :> current_price) @@ @], i + 1, env)
                    ELSE IF RLe(current_price, dip_trigger)
                         THEN LET r == open_trade(s0, symbol, env)
                              IN IF r.in_trade THEN r
                                 ELSE ScanFrom_ContinuesAfterAbort(r, i + 1, env)
                         ELSE ScanFrom_ContinuesAfterAbort(s0, i + 1, env)

\* ScanFrom without the return after _open_trade (line 80)
RECURSIVE ScanFrom_NoReturn(_, _, _)
ScanFrom_NoReturn(st, i, env) ==
    IF i > NumSymbols THEN st
    ELSE LET symbol == SYMBOLS[i]
             po == PriceAnswer(env, i)
         IN IF ~po.ok THEN [st EXCEPT !.log.fetched = Append(@, symbol),
                                       !.log.raised = TRUE]
            ELSE LET current_price == Whole(po.v)
                     ref_price == RefOf(st, symbol, current_price)
                     dip_trigger == calculate_dip_price(ref_price)
                     s0 == [st EXCEPT !.log.fetched = Append(@, symbol),
                                      !.log.prices = Append(@, po.v)]
                 IN IF TrailsUp(current_price, ref_price)
                    THEN ScanFrom_NoReturn([s0 EXCEPT !.reference_prices =
                                       (symbol :> current_price) @@ @], i + 1, env)
                    ELSE IF RLe(current_price, dip_trigger)
                         THEN ScanFrom_NoReturn(open_trade(s0, symbol, env), i + 1, env)
                         ELSE ScanFrom_NoReturn(s0, i + 1, env)

\* _scan_for_opportunities, the loop from its i-th symbol on
RECURSIVE ScanFrom(_, _, _)
ScanFrom(st, i, env) ==
    IF i > NumSymbols THEN st
    ELSE LET symbol == SYMBOLS[i]
             po == PriceAnswer(env, i)
         IN IF ~po.ok THEN [st EXCEPT !.log.fetched = Append(@, symbol),
                                       !.log.raised = TRUE]
            ELSE LET current_price == Whole(po.v)
                     ref_price == RefOf(st, symbol, current_price)
                     dip_trigger == calculate_dip_price(ref_price)
                     s0 == [st EXCEPT !.log.fetched = Append(@, symbol),
                                      !.log.prices = Append(@, po.v)]
                 IN IF TrailsUp(current_price, ref_price)
                    THEN ScanFrom([s0 EXCEPT !.reference_prices =
                                       (symbol :> current_price) @@ @], i + 1, env)
                    ELSE IF RLe(current_price, dip_trigger)
                         THEN open_trade(s0, symbol, env)
                         ELSE ScanFrom(s0, i + 1, env)

scan_for_opportunities(st, env) == ScanFrom(st, 1, env)

trade_cycle(st, env) ==
    IF st.in_trade
    THEN monitor_active_trade([st EXCEPT !.log = NewCycle("InTrade")], env)
    ELSE scan_for_opportunities([st EXCEPT !.log = NewCycle("Idle")], env)

(***************************************************************************)
(* The exchange's answers during one cycle.  px[i] answers the i-th price  *)
(* query of the controller; cancel, buy_px (the price query inside         *)
(* market_buy), order and balance answer the calls of one open or close    *)
(* attempt.  Only the answers to calls the cycle makes are enumerated, and *)
(* a market order is never filled beyond the quantity ordered.             *)
(***************************************************************************)
NoPrice == [ok |-> FALSE, v |-> 0]
NoOrder == [raised |-> TRUE, fills |-> <<>>]
NoAttempt == [cancel |-> "ok", buy_px |-> NoPrice, order |-> NoOrder, balance |-> "ok"]

Env(px, a) == [px |-> px, cancel |-> a.cancel, buy_px |-> a.buy_px,
               order |-> a.order, balance |-> a.balance]

\* number of price queries the controller makes when answered by px
Consumed(st, px) ==
    Len(trade_cycle(st, Env(px, NoAttempt)).log.fetched)

PriceRuns(st) ==
    {px \in UNION {[1..k -> PriceOutcome] : k \in 1..NumSymbols} : Consumed(st, px) = Len(px)}

\* answers to cancel_open_orders and to the price query of market_buy, given
\* the cycle run up to its first attempt
AttemptCalls(st, probe) ==
    IF probe.log.cancels = <<>> THEN {NoAttempt}
    ELSE {[NoAttempt EXCEPT !.cancel = "raise"]}
         \cup (IF st.in_trade THEN {NoAttempt}
               ELSE {NoAttempt}
                    \cup {[NoAttempt EXCEPT !.buy_px = [ok |-> TRUE, v |-> p]] : p \in BuyPrices})

\* answers of the exchange to the order the attempt submits, if it submits one
OrderAnswers(probe) ==
    IF probe.log.orders = <<>> THEN {NoOrder}
    ELSE {o \in OrderOutcome : o.raised \/ SumQty(o.fills) <= probe.log.orders[1].qty}

\* answers to get_balance, if the attempt asks for the balance
BalanceAnswers(probe) ==
    IF probe.log.balance = "none" THEN {"ok"} ELSE CallOutcome

(***************************************************************************)
(* Initial state: Trader.__init__, which builds the gateway (one lot       *)
(* constraint per configured symbol) and the empty trading state.          *)
(***************************************************************************)
Constructed ==
    /\ in_trade = FALSE
    /\ active_symbol = None
    /\ trade = EmptyDict
    /\ reference_prices = EmptyDict
    /\ filters \in FilterConfigs
    /\ phase = "constructed"
    /\ cycle = NewCycle("None")

Init == Constructed /\ call = NoCall

\* Trader.start: seed the reference prices, then run the scheduler; a price
\* query that raises ends the process
Start ==
    /\ phase = "constructed"
    /\ \E px \in [1..NumSymbols -> {o \in PriceOutcome : o.ok => o.v \in StartPrices}] :
         LET failed == {i \in 1..NumSymbols : ~px[i].ok}
             seeded == {i \in 1..NumSymbols : \A j \in failed : i < j}
         IN /\ reference_prices' =
                  [s \in {SYMBOLS[i] : i \in seeded} |->
                      Whole(px[CHOOSE i \in seeded : SYMBOLS[i] = s].v)]
            /\ phase' = IF failed = {} THEN "running" ELSE "crashed"
    /\ UNCHANGED <<in_trade, active_symbol, trade, filters, cycle, call>>

\* one run of Trader._trade_cycle from its first line to its return
RunCycle ==
    /\ phase = "running"
    /\ \E px \in PriceRuns(Cur) :
        \E p0 \in {trade_cycle(Cur, Env(px, NoAttempt))} :
         \E c \in AttemptCalls(Cur, p0) :
          \E p1 \in {trade_cycle(Cur, Env(px, c))} :
           \E o \in OrderAnswers(p1) :
            \E p2 \in {trade_cycle(Cur, Env(px, [c EXCEPT !.order = o]))} :
             \E b \in BalanceAnswers(p2) :
              \E r \in {IF b = "ok" THEN p2
                        ELSE trade_cycle(Cur, Env(px, [c EXCEPT !.order = o, !.balance = b]))} :
               /\ in_trade' = r.in_trade
               /\ active_symbol' = r.active_symbol
               /\ trade' = r.trade
               /\ reference_prices' = r.reference_prices
               /\ cycle' = r.log
    /\ UNCHANGED <<filters, phase>>

\* one firing of the scheduler's job, run to its end
TradeCycle == RunCycle /\ UNCHANGED call

Next == Start \/ TradeCycle

Spec == Init /\ [][Next]_vars

(***************************************************************************)
(* The scheduler (trader.py 37-49).  BlockingScheduler() hands each due    *)
(* run of the job to a worker thread and add_job, called without           *)
(* max_instances, leaves the job at one running instance: a run that comes *)
(* due while the job still runs is skipped.  SpecTimer separates the       *)
(* moment the interval comes due from the moment the job returns;          *)
(* call.running counts the instances of _trade_cycle in execution and      *)
(* call.missed tells that a due run was skipped since the job began.       *)
(***************************************************************************)
max_instances == 1

Scheduler == [op |-> "scheduler", running |-> 0, missed |-> FALSE]

\* the lot constraints play no part in the scheduling: one of the tables
TimerInit ==
    /\ Constructed
    /\ filters[SYMBOLS[1]] = DefaultFilter
    /\ call = Scheduler

\* IntervalComesDue without the check of the running instances
IntervalComesDue_NoInstanceCheck ==
    /\ phase = "running"
    /\ call' = [call EXCEPT !.running = @ + 1]
    /\ UNCHANGED <<in_trade, active_symbol, trade, reference_prices, filters, phase, cycle>>

\* the interval trigger comes due: the job is submitted to a worker, or the
\* run is skipped because the job is still running
IntervalComesDue ==
    /\ phase = "running"
    /\ call' = IF call.running < max_instances
               THEN [call EXCEPT !.running = @ + 1]
               ELSE [call EXCEPT !.missed = TRUE]
    /\ UNCHANGED <<in_trade, active_symbol, trade, reference_prices, filters, phase, cycle>>

\* the worker runs _trade_cycle and the job returns
JobReturns ==
    /\ call.running > 0
    /\ RunCycle
    /\ call' = [call EXCEPT !.running = @ - 1, !.missed = FALSE]

\* SpecTimer's steps
TimerNext == Start \/ IntervalComesDue \/ JobReturns

SpecTimer == TimerInit /\ [][TimerNext]_vars

TypeOK ==
    /\ in_trade \in BOOLEAN
    /\ active_symbol \in SymbolSet \cup {None}
    /\ phase \in {"constructed", "running", "crashed"}
    /\ DOMAIN reference_prices \subseteq SymbolSet

(***************************************************************************)
(* Closing under a cooperating exchange (trader.py 132-192).  In          *)
(* SpecClose every price, cancel and balance call succeeds.  A buy order   *)
(* is filled with any fills up to the quantity ordered, so that every      *)
(* trade a buy can produce is opened; from the open on each cycle is       *)
(* answered with a price that meets a close trigger of the trade, and each *)
(* sell order received is filled in full.  The scheduler keeps firing the  *)
(* job, hence the weak fairness of the cycles.                             *)
(***************************************************************************)
\* the controller values a scan from st can end in when every call of the
\* scan succeeds and the buy order, if one is submitted, is answered with
\* any fills up to the quantity ordered
BuyResults(st, px, c, p1) ==
    {trade_cycle(st, Env(px, [c EXCEPT !.order = o])) :
        o \in {x \in OrderAnswers(p1) : p1.log.orders # <<>> => ~x.raised}}

ScanResults(st) ==
    UNION {UNION {UNION {BuyResults(st, px, c, p1) : p1 \in {trade_cycle(st, Env(px, c))}} :
                    c \in {[NoAttempt EXCEPT !.buy_px = [ok |-> TRUE, v |-> p]] : p \in BuyPrices}} :
             px \in {x \in PriceRuns(st) : \A i \in DOMAIN x : x[i].ok}}

\* the scheduler's job, as SpecClose sees it: call.tick flips each time the
\* job has run
Job == [op |-> "job", tick |-> 0]

CloseInit == Constructed /\ call = Job

\* the job runs once more
JobFires ==
    /\ phase = "running"
    /\ call' = [call EXCEPT !.tick = 1 - @]

\* a scan cycle
ScanCycle ==
    /\ JobFires
    /\ ~in_trade
    /\ \E r \in ScanResults(Cur) :
          /\ in_trade' = r.in_trade
          /\ active_symbol' = r.active_symbol
          /\ trade' = r.trade
          /\ reference_prices' = r.reference_prices
          /\ cycle' = r.log
    /\ UNCHANGED <<filters, phase>>

\* prices that meet a close trigger of trade t
TriggerPrices(t) == {p \in Prices : CloseReason(t, Whole(p)) # "none"}

\* the exchange's answer to the sell order of the cycle probed: filled in full
FullFills(probe) ==
    IF probe.log.orders = <<>> THEN {NoOrder}
    ELSE {o \in OrderOutcome : ~o.raised /\ SumQty(o.fills) = probe.log.orders[1].qty}

\* the controller values a monitor cycle from st can end in against the
\* cooperating exchange
CloseResults(st) ==
    UNION {UNION {{trade_cycle(st, Env(px, [NoAttempt EXCEPT !.order = o])) :
                      o \in FullFills(p1)} :
                    p1 \in {trade_cycle(st, Env(px, NoAttempt))}} :
             px \in {<<[ok |-> TRUE, v |-> p]>> : p \in TriggerPrices(st.trade)}}

\* a monitor cycle against the cooperating exchange
CloseCycle ==
    /\ JobFires
    /\ in_trade
    /\ \E r \in CloseResults(Cur) :
          /\ in_trade' = r.in_trade
          /\ active_symbol' = r.active_symbol
          /\ trade' = r.trade
          /\ reference_prices' = r.reference_prices
          /\ cycle' = r.log
    /\ UNCHANGED <<filters, phase>>

CloseNext == Start \/ ScanCycle \/ CloseCycle

\* the interval trigger keeps coming due: the job runs again and again
SpecClose == CloseInit /\ [][CloseNext]_vars /\ WF_call(JobFires)

(***************************************************************************)
(* _apply_lot_size on its own (binance_client.py 86-103): SpecLot draws a  *)
(* lot constraint and a quantity and applies the function to them.         *)
(***************************************************************************)
LotConstraints == [min : 0..MaxLot, max : 0..MaxLot, step : 1..MaxLot] \cup {DefaultFilter}

LotQuantities == 0..(2 * MaxLot)

LotInit ==
    /\ Constructed
    /\ call \in [op : {"apply_lot_size"}, f : LotConstraints, qty : LotQuantities,
                  done : {FALSE}, result : {[ok |-> FALSE, qty |-> 0]}]

ApplyLotSize ==
    /\ call.op = "apply_lot_size"
    /\ ~call.done
    /\ call' = [call EXCEPT !.done = TRUE, !.result = apply_lot_size(call.f, call.qty)]
    /\ UNCHANGED <<in_trade, active_symbol, trade, reference_prices, filters, phase, cycle>>

LotNext == ApplyLotSize

SpecLot == LotInit /\ [][LotNext]_vars

(***************************************************************************)
(* The thresholds of a trade on their own (calculations.py 13-34, used at  *)
(* trader.py 107-109): SpecPrices draws an entry price, which is a         *)
(* quantity-weighted average of fill prices and so a fraction of ticks,    *)
(* and computes the three thresholds the trade stores.                     *)
(***************************************************************************)
EntryPrices == {Rat(n, d) : n \in 1..MaxEntry, d \in 1..2}

PricesInit ==
    /\ Constructed
    /\ call \in [op : {"thresholds"}, entry_price : EntryPrices, done : {FALSE},
                  sl_price : {Whole(0)}, tp_price : {Whole(0)},
                  auto_close_price : {Whole(0)}]

ComputeThresholds ==
    /\ call.op = "thresholds"
    /\ ~call.done
    /\ call' = [call EXCEPT !.done = TRUE,
                            !.sl_price = calculate_sl_price(call.entry_price),
                            !.tp_price = calculate_tp_price(call.entry_price),
                            !.auto_close_price = calculate_auto_close_price(call.entry_price)]
    /\ UNCHANGED <<in_trade, active_symbol, trade, reference_prices, filters, phase, cycle>>

PricesNext == ComputeThresholds

SpecPrices == PricesInit /\ [][PricesNext]_vars

(***************************************************************************)
(* The retry wrapper (binance_client.py 18-37) step by step.  SpecRetry    *)
(* follows one call of a wrapped gateway method: call.attempt counts the   *)
(* attempts made, call.log keeps how each attempt ended, call.orders       *)
(* counts the orders the attempts sent to the exchange.  An attempt ends   *)
(* with exc = "none" (fn returned), "api" (BinanceAPIException),           *)
(* "request" (BinanceRequestException) or "other" (any other exception);   *)
(* sent tells whether the attempt reached order_market_buy / _sell.        *)
(***************************************************************************)
_MAX_RETRIES == 3

Wrapped == {"get_current_price", "get_balance", "cancel_open_orders",
            "market_buy", "market_sell"}

Exceptions == {"api", "request", "other"}

\* how one attempt of fn can end
AttemptOutcomes(fn) ==
    IF fn = "market_buy"
    THEN \* the inner price query raised; the lot check returned None; the order was sent
         [exc : Exceptions, sent : {FALSE}] \cup {[exc |-> "none", sent |-> FALSE]}
            \cup [exc : Exceptions \cup {"none"}, sent : {TRUE}]
    ELSE IF fn = "market_sell"
    THEN {[exc |-> "none", sent |-> FALSE]} \cup [exc : Exceptions \cup {"none"}, sent : {TRUE}]
    ELSE \* cancel_open_orders turns the API error -2011 into a return (lines 122-124)
         [exc : Exceptions \cup {"none"}, sent : {FALSE}]

\* Retried with the handler widened to every exception
Retried_AnyException(exc) == exc # "none"

\* line 30: except (BinanceAPIException, BinanceRequestException)
Retried(exc) == exc \in {"api", "request"}

RetryInit ==
    /\ Constructed
    /\ call \in [op : {"retry"}, fn : Wrapped, attempt : {0}, status : {"running"},
                  last_exc : {"none"}, log : {<<>>}, orders : {0}]

\* one pass of the loop body, lines 27-33
Attempt ==
    /\ call.op = "retry"
    /\ call.status = "running"
    /\ call.attempt < _MAX_RETRIES
    /\ \E o \in AttemptOutcomes(call.fn) :
          call' = [call EXCEPT !.attempt = @ + 1,
                               !.log = Append(@, o.exc),
                               !.orders = IF o.sent THEN @ + 1 ELSE @,
                               !.last_exc = IF Retried(o.exc) THEN o.exc ELSE @,
                               !.status = IF o.exc = "none" THEN "returned"
                                          ELSE IF Retried(o.exc) THEN "running"
                                          ELSE "raised"]
    /\ UNCHANGED <<in_trade, active_symbol, trade, reference_prices, filters, phase, cycle>>

\* the loop is over, lines 34-35: raise last_exc
Exhausted ==
    /\ call.op = "retry"
    /\ call.status = "running"
    /\ call.attempt = _MAX_RETRIES
    /\ call' = [call EXCEPT !.status = "raised"]
    /\ UNCHANGED <<in_trade, active_symbol, trade, reference_prices, filters, phase, cycle>>

RetryNext == Attempt \/ Exhausted

\* the thread that made the call keeps running: every attempt ends and
\* time.sleep returns
SpecRetry == RetryInit /\ [][RetryNext]_vars /\ WF_vars(RetryNext)

(***************************************************************************)
(* The notifier (bot/notifier.py 22-36) step by step, inside the end of    *)
(* _close_trade (trader.py 174-192).  SpecNotify starts where a sell has   *)
(* returned fills and the balance is known: the controller is InTrade on   *)
(* call.symbol, the close reason and the exit price are computed, and the  *)
(* notifier is about to be called.  call.pc is "notify" while _send runs,  *)
(* "reset" when it has returned, "done" after the reset of lines 183-186,  *)
(* and "failed" if an exception reached the handler of line 189.           *)
(***************************************************************************)
TelegramNotifier_MAX_RETRIES == 3

OpenTrades ==
    {[qty |-> q, entry_price |-> Whole(e),
      sl_price |-> calculate_sl_price(Whole(e)),
      tp_price |-> calculate_tp_price(Whole(e)),
      auto_close_price |-> calculate_auto_close_price(Whole(e))] :
        q \in 1..MaxFillQty, e \in FillPrices}

NotifyInit ==
    /\ in_trade = TRUE
    /\ active_symbol \in SymbolSet
    /\ trade \in OpenTrades
    /\ reference_prices \in [SymbolSet -> {Whole(p) : p \in StartPrices}]
    /\ filters \in FilterConfigs
    /\ phase = "running"
    /\ cycle = NewCycle("InTrade")
    /\ call \in [op : {"close"}, pc : {"notify"}, symbol : {active_symbol},
                  reason : {"SL", "TP", "Auto-Close"},
                  exit_price : {Whole(p) : p \in FillPrices},
                  attempt : {0}, log : {<<>>}]

\* one pass of the loop body of _send, lines 29-35: delivered, or any exception
SendAttempt ==
    /\ call.op = "close"
    /\ call.pc = "notify"
    /\ call.attempt < TelegramNotifier_MAX_RETRIES
    /\ \E delivered \in BOOLEAN :
          call' = [call EXCEPT !.attempt = @ + 1,
                               !.log = Append(@, delivered),
                               !.pc = IF delivered THEN "reset" ELSE "notify"]
    /\ UNCHANGED <<in_trade, active_symbol, trade, reference_prices, filters, phase, cycle>>

\* SendGivesUp raising instead of returning once the attempts are used up
SendGivesUp_Raises ==
    /\ call.op = "close"
    /\ call.pc = "notify"
    /\ call.attempt = TelegramNotifier_MAX_RETRIES
    /\ call' = [call EXCEPT !.pc = "failed"]
    /\ UNCHANGED <<in_trade, active_symbol, trade, reference_prices, filters, phase, cycle>>

\* the loop of _send is over, line 36: log the error and return
SendGivesUp ==
    /\ call.op = "close"
    /\ call.pc = "notify"
    /\ call.attempt = TelegramNotifier_MAX_RETRIES
    /\ call' = [call EXCEPT !.pc = "reset"]
    /\ UNCHANGED <<in_trade, active_symbol, trade, reference_prices, filters, phase, cycle>>

\* trader.py 183-187, after the notifier has returned
ResetAfterNotify ==
    /\ call.op = "close"
    /\ call.pc = "reset"
    /\ \E r \in {ResetState(Cur, call.symbol, call.reason, call.exit_price)} :
          /\ in_trade' = r.in_trade
          /\ active_symbol' = r.active_symbol
          /\ trade' = r.trade
          /\ reference_prices' = r.reference_prices
          /\ cycle' = r.log
    /\ call' = [call EXCEPT !.pc = "done"]
    /\ UNCHANGED <<filters, phase>>

NotifyNext == SendAttempt \/ SendGivesUp \/ ResetAfterNotify

\* the thread running the cycle keeps running: requests.post has a timeout
\* and time.sleep returns
SpecNotify == NotifyInit /\ [][NotifyNext]_vars /\ WF_vars(NotifyNext)

(***************************************************************************)
(* The loading of the lot constraints (binance_client.py 51-84), one       *)
(* symbol at a time.  SpecFilters starts at line 52 with an empty table;   *)
(* call.next is the index of the symbol the constructor's loop loads next  *)
(* and call.answers keeps what get_symbol_info answered for each symbol.   *)
(***************************************************************************)
\* answers of get_symbol_info: it raises, returns None, returns an info
\* without a LOT_SIZE filter, returns a LOT_SIZE filter that cannot be read
\* (a missing key, a value that is no number), or returns a LOT_SIZE filter
SymbolInfoAnswers ==
    [kind : {"raise", "none", "no_lot_size", "malformed"}, lot : {DefaultFilter}]
       \cup [kind : {"lot"}, lot : LotConstraints]

\* load_symbol_filters that stores nothing when the load raises
load_symbol_filters_NoEntryOnError(fs, symbol, a) ==
    IF a.kind \in {"raise", "malformed"} THEN fs
    ELSE IF a.kind = "lot" THEN (symbol :> a.lot) @@ fs
    ELSE (symbol :> [min |-> 0, max |-> 0, step |-> 10]) @@ fs

\* _load_symbol_filters: the table after the load of symbol answered by a
load_symbol_filters(fs, symbol, a) ==
    IF a.kind \in {"raise", "malformed"}
    THEN (symbol :> DefaultFilter) @@ fs                       \* lines 79-84
    ELSE IF a.kind = "lot" THEN (symbol :> a.lot) @@ fs        \* lines 65-76
    ELSE \* the locals as set at lines 61-63: 0, 0 and one whole coin
         (symbol :> [min |-> 0, max |-> 0, step |-> 10]) @@ fs

FiltersInit ==
    /\ in_trade = FALSE
    /\ active_symbol = None
    /\ trade = EmptyDict
    /\ reference_prices = EmptyDict
    /\ filters = EmptyDict
    /\ phase = "constructed"
    /\ cycle = NewCycle("None")
    /\ call = [op |-> "load", next |-> 1, answers |-> <<>>]

\* one pass of the loop of BinanceClient.__init__, lines 54-55
LoadSymbolFilters ==
    /\ call.op = "load"
    /\ call.next <= NumSymbols
    /\ \E a \in SymbolInfoAnswers :
          /\ filters' = load_symbol_filters(filters, SYMBOLS[call.next], a)
          /\ call' = [call EXCEPT !.next = @ + 1, !.answers = Append(@, a)]
    /\ UNCHANGED <<in_trade, active_symbol, trade, reference_prices, phase, cycle>>

FiltersNext == LoadSymbolFilters

SpecFilters == FiltersInit /\ [][FiltersNext]_vars

(***************************************************************************)
(* Properties.                                                             *)
(***************************************************************************)
TradeFields == {"qty", "entry_price", "sl_price", "tp_price", "auto_close_price"}

\* C1: between cycles the three state fields agree: in_trade holds iff the
\* trade record is non-empty (and then has its five fields) iff active_symbol
\* is a configured symbol; when in_trade is false the record is empty and
\* active_symbol is None.
C1_StateFieldsAgree ==
    /\ in_trade <=> (trade # EmptyDict)
    /\ in_trade <=> (active_symbol \in SymbolSet)
    /\ in_trade => DOMAIN trade = TradeFields
    /\ ~in_trade => (trade = EmptyDict /\ active_symbol = None)

\* a trade was opened and closed again
C1_Witness ==
    /\ cycle.mode0 = "InTrade"
    /\ ~in_trade
    /\ cycle.notes # <<>>

\* the open attempt of the last cycle ended in one of the failures: cancel or
\* buy raised, the gateway returned no order, the fill list was empty, or the
\* fills add up to quantity zero
OpenFailed ==
    /\ cycle.opens # <<>>
    /\ cycle.buy \in {"not_called", "raised", "no_order", "empty", "zero_qty"}

\* C2: a failed open attempt leaves the controller as it was before the
\* attempt: Idle, no trade record, no active symbol, and every reference
\* price as it was when _open_trade was entered.
C2_FailedOpenChangesNothing ==
    OpenFailed =>
        /\ ~in_trade
        /\ active_symbol = None
        /\ trade = EmptyDict
        /\ reference_prices = cycle.refs_at_open

\* the buy returned fills whose quantities add up to zero
C2_Witness ==
    /\ cycle.opens # <<>>
    /\ cycle.buy = "zero_qty"
    /\ cycle.fills # <<>>

\* the close attempt recorded in log c failed: the sell returned an empty
\* fill list, or a step of the attempt raised
CloseFailed(c) ==
    /\ c.reason # "none"
    /\ \/ c.sell \in {"not_called", "raised", "no_order", "empty"}
       \/ c.balance = "raise"

\* C3: a cycle whose close attempt fails that way leaves the mode InTrade and
\* the active symbol, every reference price and the trade record unchanged.
C3_FailedCloseChangesNothing ==
    [][CloseFailed(cycle') =>
          /\ in_trade /\ in_trade'
          /\ active_symbol' = active_symbol
          /\ reference_prices' = reference_prices
          /\ trade' = trade]_vars

\* a sell returned an empty fill list
C3_Witness ==
    /\ cycle.reason # "none"
    /\ cycle.sell = "empty"
    /\ in_trade

\* C4 (as claimed): after a cycle whose close attempt failed, the position
\* is still InTrade and the next cycle (its price query being answered) makes
\* the close attempt again: it cancels the stray orders of the active symbol
\* and, unless the cancel raises, sells the recorded quantity.
C4_FailedCloseRetriedNextCycle ==
    [][(phase = "running" /\ CloseFailed(cycle) /\ cycle'.prices # <<>>) =>
          /\ in_trade
          /\ cycle'.reason # "none"
          /\ cycle'.cancels = <<active_symbol>>
          /\ cycle'.sell # "not_called" =>
                 cycle'.sells = <<[symbol |-> active_symbol, qty |-> trade.qty]>>]_vars

Range(f) == {f[i] : i \in DOMAIN f}

\* C5: an InTrade cycle asks for the price of the active symbol only and
\* selects at most one close reason, testing stop-loss, then take-profit,
\* then auto-close; without a reason nothing is cancelled or sold.  With
\* entry price 100 the thresholds are 95, 110 and 102: 94 closes as SL, 105
\* as Auto-Close and 111, which is above both upper thresholds, as TP.
C5_MonitorPriority ==
    [][(phase = "running" /\ in_trade) =>
          /\ cycle'.fetched = <<active_symbol>>
          /\ Len(cycle'.sells) <= 1
          /\ cycle'.prices # <<>> =>
               LET p == Whole(cycle'.prices[1]) IN
               /\ RLe(p, trade.sl_price) => cycle'.reason = "SL"
               /\ (~RLe(p, trade.sl_price) /\ RGe(p, trade.tp_price)) =>
                      cycle'.reason = "TP"
               /\ (~RLe(p, trade.sl_price) /\ ~RGe(p, trade.tp_price)
                      /\ RGe(p, trade.auto_close_price)) => cycle'.reason = "Auto-Close"
               /\ (~RLe(p, trade.sl_price) /\ ~RGe(p, trade.tp_price)
                      /\ ~RGe(p, trade.auto_close_price)) =>
                      /\ cycle'.reason = "none"
                      /\ cycle'.cancels = <<>> /\ cycle'.sells = <<>> /\ cycle'.orders = <<>>
               /\ trade.entry_price = Whole(100) =>
                      /\ trade.sl_price = Whole(95)
                      /\ trade.tp_price = Whole(110)
                      /\ trade.auto_close_price = Whole(102)
                      /\ p = Whole(94) => cycle'.reason = "SL"
                      /\ p = Whole(105) => cycle'.reason = "Auto-Close"
                      /\ p = Whole(111) => cycle'.reason = "TP"
                      /\ p \in {Whole(96), Whole(100)} => cycle'.reason = "none"]_vars

\* a price above both the take-profit and the auto-close threshold closed as TP
C5_Witness ==
    /\ cycle.mode0 = "InTrade"
    /\ cycle.prices = <<111>>
    /\ cycle.reason = "TP"
    /\ cycle.sells # <<>>

\* C6: in an Idle scan, for every symbol examined with reference price R and
\* current price p: p > R makes the reference p and opens nothing for the
\* symbol; otherwise p <= dipTrigger(R) makes an open attempt for it and
\* leaves R; otherwise nothing changes.  With R = 100 (dip 5%), 94 triggers
\* an open attempt, 96 does not, 105 sets the reference to 105 without opening.
C6_ScanStep ==
    [][(phase = "running" /\ ~in_trade) =>
          \A i \in DOMAIN cycle'.prices :
             LET s == cycle'.fetched[i]
                 p == Whole(cycle'.prices[i])
                 R == reference_prices[s]
             IN /\ RGt(p, R) =>
                     (reference_prices'[s] = p /\ s \notin Range(cycle'.opens))
                /\ (~RGt(p, R) /\ RLe(p, calculate_dip_price(R))) =>
                     (cycle'.opens = <<s>> /\ reference_prices'[s] = R)
                /\ (~RGt(p, R) /\ ~RLe(p, calculate_dip_price(R))) =>
                     (reference_prices'[s] = R /\ s \notin Range(cycle'.opens))
                /\ R = Whole(100) =>
                     /\ p = Whole(94) => cycle'.opens = <<s>>
                     /\ p = Whole(96) =>
                          (s \notin Range(cycle'.opens) /\ reference_prices'[s] = R)
                     /\ p = Whole(105) =>
                          (s \notin Range(cycle'.opens) /\ reference_prices'[s] = Whole(105))]_vars

\* a price of 94 against a reference of 100 led to an open attempt
C6_Witness ==
    /\ cycle.opens # <<>>
    /\ cycle.refs_at_open[cycle.opens[1]] = Whole(100)
    /\ cycle.prices[Len(cycle.prices)] = 94

\* the j-th price of the cycle recorded in c is at or below the dip trigger
\* of (and not above) the reference price refs holds for the j-th symbol
Qualifies(c, refs, j) ==
    /\ ~RGt(Whole(c.prices[j]), refs[SYMBOLS[j]])
    /\ RLe(Whole(c.prices[j]), calculate_dip_price(refs[SYMBOLS[j]]))

C8_CreatedAndDestroyedByFilledOrders ==
    [][/\ (~in_trade /\ in_trade') =>
             (cycle'.buy # "none" /\ SumQty(cycle'.fills) > 0)
       /\ (in_trade /\ ~in_trade') =>
             (cycle'.sell # "none" /\ SumQty(cycle'.fills) > 0)]_vars

\* C9: a cycle that starts Idle never lowers a reference price, and a step
\* that lowers the reference price of a symbol is a close of the trade on
\* that symbol.
C9_ReferenceLoweredOnlyByClose ==
    [][\A s \in DOMAIN reference_prices :
          /\ ~in_trade => ~RLt(reference_prices'[s], reference_prices[s])
          /\ RLt(reference_prices'[s], reference_prices[s]) =>
                /\ in_trade /\ ~in_trade'
                /\ active_symbol = s
                /\ cycle'.sells = <<[symbol |-> s, qty |-> trade.qty]>>]_vars

\* a close set the reference price of its symbol below what it was
C9_Witness ==
    /\ cycle.mode0 = "InTrade"
    /\ ~in_trade
    /\ cycle.sells # <<>>
    /\ RLt(reference_prices[cycle.sells[1].symbol], cycle.old_ref)

\* C10: a close whose sell returned fills of positive total quantity sets the
\* reference price of its symbol to the fill-quantity-weighted exit price X
\* and leaves the other reference prices; in the next cycle the scan treats
\* that symbol against X: it opens for it iff the price is at or below the
\* dip trigger of X, and trails iff the price is above X.
C10_ReferenceBecomesExitPrice ==
    [][/\ (in_trade /\ ~in_trade' /\ SumQty(cycle'.fills) > 0) =>
             /\ reference_prices'[active_symbol] = AveragePrice(cycle'.fills)
             /\ \A o \in SymbolSet \ {active_symbol} :
                    reference_prices'[o] = reference_prices[o]
       /\ (phase = "running" /\ ~in_trade /\ cycle.mode0 = "InTrade"
              /\ SumQty(cycle.fills) > 0) =>
             LET S == cycle.sells[1].symbol
                 X == AveragePrice(cycle.fills)
             IN \A i \in DOMAIN cycle'.prices :
                   cycle'.fetched[i] = S =>
                      LET p == Whole(cycle'.prices[i]) IN
                      /\ S \in Range(cycle'.opens) <=>
                            (~RGt(p, X) /\ RLe(p, calculate_dip_price(X)))
                      /\ RGt(p, X) => reference_prices'[S] = p
                      /\ ~RGt(p, X) => reference_prices'[S] = X]_vars

\* a close on two fills of different prices replaced the reference price
C10_Witness ==
    /\ cycle.mode0 = "InTrade"
    /\ ~in_trade
    /\ Len(cycle.fills) = 2
    /\ SumQty(cycle.fills) > 0
    /\ cycle.fills[1].price # cycle.fills[2].price
    /\ cycle.fills[1].qty > 0 /\ cycle.fills[2].qty > 0
    /\ reference_prices[cycle.sells[1].symbol] # cycle.old_ref
    /\ reference_prices[cycle.sells[1].symbol] = [n |-> 97, d |-> 1]

\* an exception was raised in the cycle recorded by c: at a price query of
\* the scan or the monitor, or inside an open or close attempt (where
\* market_buy / market_sell returning None makes order.get raise)
ErrorInCycle(c) ==
    \/ c.raised
    \/ c.buy \in {"raised", "not_called", "no_order"}
    \/ c.sell \in {"raised", "not_called", "no_order"}
    \/ c.balance = "raise"

\* C11 as stated: a cycle in which an error was raised ends with the
\* reference prices, the mode and the active trade equal to their values at
\* the start of the cycle (and the scheduler keeps running).
C11_ErrorLeavesStateAsAtCycleStart ==
    [][ErrorInCycle(cycle') =>
          /\ phase' = "running"
          /\ in_trade' = in_trade
          /\ active_symbol' = active_symbol
          /\ trade' = trade
          /\ reference_prices' = reference_prices]_vars

\* C11, amended: a cycle in which an error was raised keeps the scheduler
\* running and ends with the mode and the active trade as they were at the
\* start of the cycle; a reference price is either as it was or, in a scan,
\* was raised to the price fetched for its symbol before the error.
C11_ErrorKeepsModeAndTrade ==
    [][ErrorInCycle(cycle') =>
          /\ phase' = "running"
          /\ in_trade' = in_trade
          /\ active_symbol' = active_symbol
          /\ trade' = trade
          /\ DOMAIN reference_prices' = DOMAIN reference_prices
          /\ \A s \in DOMAIN reference_prices :
                \/ reference_prices'[s] = reference_prices[s]
                \/ /\ ~in_trade
                   /\ RGt(reference_prices'[s], reference_prices[s])
                   /\ \E i \in DOMAIN cycle'.prices :
                         /\ cycle'.fetched[i] = s
                         /\ Whole(cycle'.prices[i]) = reference_prices'[s]]_vars

\* a scan fetched the top price for its first symbol, made it the reference
\* price, and the price query of the second symbol raised
C11_Witness ==
    /\ cycle.mode0 = "Idle"
    /\ cycle.raised
    /\ Len(cycle.fetched) = 2
    /\ cycle.prices = <<111>>
    /\ reference_prices[SYMBOLS[1]] = Whole(111)
    /\ ~in_trade

C13_LotSizeResult ==
    (call.op = "apply_lot_size" /\ call.done) =>
        LET f == call.f
            floored == (call.qty \div f.step) * f.step
            r == call.result
        IN /\ (~r.ok) <=> (floored < f.min)
           /\ r.ok => (r.qty % f.step = 0)
           /\ r.ok => (r.qty >= f.min)
           /\ (r.ok /\ f.max > 0) => (r.qty <= f.max)

\* C14: for every entry price e > 0 the thresholds stored for the trade,
\* rounded to the price precision, are ordered
\* stopLoss(e) < e < autoClose(e) <= takeProfit(e).
C14_ThresholdsOrdered ==
    (call.op = "thresholds" /\ call.done) =>
        /\ RLt(call.sl_price, call.entry_price)
        /\ RLt(call.entry_price, call.auto_close_price)
        /\ RLe(call.auto_close_price, call.tp_price)

\* C15: one call of market_buy or market_sell, which is all an open or
\* close attempt makes, sends at most one order to the exchange, whatever
\* failures occur.
C15_AtMostOneOrderPerAttempt ==
    (call.op = "retry" /\ call.fn \in {"market_buy", "market_sell"}) => call.orders <= 1

\* the first k attempts of the call ended with an exception of the exchange
\* client (BinanceAPIException or BinanceRequestException)
AllTransient(k) ==
    \A i \in 1..k : call.log[i] \in {"api", "request"}

\* what C16 says of a wrapped call in state: never more than 3 attempts; a
\* call that returned did so on the first attempt that succeeded; a call
\* that raised either failed 3 times with an exception of the exchange
\* client and raised the last one, or met another exception and raised at
\* once
RetryBounded ==
    call.op = "retry" =>
        /\ call.attempt <= 3
        /\ Len(call.log) = call.attempt
        /\ call.status = "returned" =>
              /\ call.attempt >= 1
              /\ call.log[call.attempt] = "none"
              /\ AllTransient(call.attempt - 1)
        /\ call.status = "raised" =>
              \/ /\ call.attempt = 3
                 /\ AllTransient(3)
                 /\ call.last_exc = call.log[3]
              \/ /\ call.attempt >= 1
                 /\ call.log[call.attempt] = "other"
                 /\ AllTransient(call.attempt - 1)

C17_NotificationsFollowTransitions ==
    [][cycle'.notes =
          IF ~in_trade /\ in_trade'
          THEN <<[kind |-> "New Trade", symbol |-> active_symbol']>>
          ELSE IF in_trade /\ ~in_trade'
          THEN <<[kind |-> CloseReason(trade, Whole(cycle'.prices[1])),
                  symbol |-> active_symbol]>>
          ELSE <<>>]_vars

\* a stop-loss close was notified
C17_Witness ==
    /\ cycle.mode0 = "InTrade"
    /\ ~in_trade
    /\ cycle.reason = "SL"
    /\ cycle.notes = <<[kind |-> "SL", symbol |-> cycle.sells[1].symbol]>>

\* the notifier has returned to _close_trade
SendReturned == call.op = "close" /\ call.pc \in {"reset", "done"}

\* what C18 says of the notifier in a state: it makes at most 3 attempts,
\* none after a delivery, and when every attempt failed it has returned
\* after exactly 3
SendBounded ==
    call.op = "close" =>
        /\ call.attempt <= 3
        /\ Len(call.log) = call.attempt
        /\ \A i \in 1..(call.attempt - 1) : ~call.log[i]
        /\ (SendReturned /\ \A i \in 1..call.attempt : ~call.log[i]) => call.attempt = 3

\* C18: a notification whose delivery fails at every attempt is attempted 3
\* times and the notifier then returns normally; whether delivered or not,
\* the close that called the notifier goes on to its reset: it ends Idle with
\* the reference price of the symbol equal to the exit price.
C18_DeliveryFailureDoesNotBlockClose ==
    /\ []SendBounded
    /\ [](call.op = "close" => call.pc # "failed")
    /\ []((call.op = "close" /\ call.pc = "done") =>
              /\ ~in_trade
              /\ active_symbol = None
              /\ trade = EmptyDict
              /\ reference_prices[call.symbol] = call.exit_price)
    /\ (call.op = "close" /\ call.pc = "notify") ~> (call.pc = "done")

\* the delivery failed three times and the close still reset the state,
\* moving the reference price
C18_Witness ==
    /\ call.op = "close"
    /\ call.pc = "done"
    /\ call.log = <<FALSE, FALSE, FALSE>>
    /\ ~in_trade
    /\ reference_prices[call.symbol] = call.exit_price
    /\ cycle.old_ref # call.exit_price
    /\ cycle.notes # <<>>

\* C19: a symbol whose load failed (the call raised, returned no info, or
\* returned no readable LOT_SIZE filter) has the default constraint
\* {min 0, max 0, step 1 coin = 10 units}, the loop goes on to the next
\* symbol, and once it is over every configured symbol has an entry.
C19_FailedLoadStoresDefault ==
    call.op = "load" =>
        /\ Len(call.answers) = call.next - 1
        /\ \A i \in 1..Len(call.answers) :
              /\ SYMBOLS[i] \in DOMAIN filters
              /\ call.answers[i].kind # "lot" =>
                    filters[SYMBOLS[i]] = [min |-> 0, max |-> 0, step |-> 10]
              /\ call.answers[i].kind = "lot" =>
                    filters[SYMBOLS[i]] = call.answers[i].lot
        /\ call.next > NumSymbols => DOMAIN filters = SymbolSet

\* the load raised for the first symbol and the second was still loaded
C19_Witness ==
    /\ call.op = "load"
    /\ call.next > NumSymbols
    /\ call.answers[1].kind = "raise"
    /\ call.answers[2].kind = "lot"
    /\ filters[SYMBOLS[1]] = DefaultFilter
    /\ filters[SYMBOLS[2]] = [min |-> 1, max |-> 3, step |-> 1]

\* C20: once a sell for the active trade has returned fills of positive
\* total quantity, no later cycle submits a sell order for that trade; in
\* particular not the cycle after a close whose balance query raised.
C20_FilledTradeNotSoldAgain ==
    [][(in_trade /\ cycle.mode0 = "InTrade" /\ cycle.sell = "filled") =>
          \A i \in DOMAIN cycle'.orders : cycle'.orders[i].side # "SELL"]_vars

\* C21: a cycle that starts InTrade and does not end the trade leaves the
\* reference prices of all symbols, the active symbol and the trade
\* (quantity, entry price, the three thresholds) as they were; and in every
\* state of a trade its thresholds are the ones derived from its entry price.
C21_InTradeCycleChangesNothing ==
    /\ [](in_trade =>
            /\ trade.sl_price = calculate_sl_price(trade.entry_price)
            /\ trade.tp_price = calculate_tp_price(trade.entry_price)
            /\ trade.auto_close_price = calculate_auto_close_price(trade.entry_price))
    /\ [][(in_trade /\ in_trade') =>
             /\ reference_prices' = reference_prices
             /\ active_symbol' = active_symbol
             /\ trade' = trade]_vars

\* a cycle fetched a price between the stop-loss and the auto-close price,
\* away from the reference price of the active symbol, and held the trade
C21_Witness ==
    /\ cycle.mode0 = "InTrade"
    /\ in_trade
    /\ cycle.reason = "none"
    /\ Len(cycle.prices) = 1
    /\ RGt(Whole(cycle.prices[1]), trade.sl_price)
    /\ RLt(Whole(cycle.prices[1]), trade.auto_close_price)
    /\ Whole(cycle.prices[1]) # reference_prices[active_symbol]

\* C22: no market buy or market sell submitted to the exchange has quantity
\* zero; a quantity that the step floors to zero is rejected before
\* submission.
C22_NoZeroQuantityOrder ==
    \A i \in DOMAIN cycle.orders : cycle.orders[i].qty > 0

\* C23: against an exchange that from the open on answers every cycle with
\* a price meeting a close trigger, fills every sell order in full and lets
\* the other calls succeed, every trade, whatever quantity its buy recorded,
\* is eventually closed: the controller returns to Idle.
C23_OpenPositionEventuallyClosed ==
    in_trade ~> ~in_trade

\* the j-th price of the cycle recorded in c is at or below the dip trigger
\* of the reference price refs holds for the j-th symbol
AtOrBelowDip(c, refs, j) ==
    RLe(Whole(c.prices[j]), calculate_dip_price(refs[SYMBOLS[j]]))

\* C24: in a scanning cycle, the first symbol S whose price is at or below
\* its dip trigger gets the one open attempt of the cycle and ends the scan,
\* whether the attempt opens a trade or aborts: no later symbol has its
\* price fetched, its reference price changed or an open attempt made, and
\* each earlier symbol whose price was above its reference holds that price
\* as its reference after the cycle.
C24_OpenAttemptEndsScan ==
    [][(phase = "running" /\ ~in_trade) =>
          \A k \in DOMAIN cycle'.prices :
             (/\ AtOrBelowDip(cycle', reference_prices, k)
              /\ \A j \in 1..(k - 1) : ~AtOrBelowDip(cycle', reference_prices, j))
             => (/\ cycle'.opens = <<SYMBOLS[k]>>
                 /\ Len(cycle'.fetched) = k
                 /\ \A j \in (k + 1)..NumSymbols :
                       (/\ SYMBOLS[j] \notin Range(cycle'.fetched)
                        /\ SYMBOLS[j] \notin Range(cycle'.opens)
                        /\ reference_prices'[SYMBOLS[j]] = reference_prices[SYMBOLS[j]])
                 /\ \A j \in 1..(k - 1) :
                       (RGt(Whole(cycle'.prices[j]), reference_prices[SYMBOLS[j]])
                          => reference_prices'[SYMBOLS[j]] = Whole(cycle'.prices[j])))]_vars

\* an open attempt on the first symbol aborted (no trade), and the second
\* symbol was not looked at in that cycle
C24_Witness ==
    /\ cycle.mode0 = "Idle"
    /\ ~in_trade
    /\ cycle.opens = <<SYMBOLS[1]>>
    /\ cycle.fetched = <<SYMBOLS[1]>>
    /\ Len(cycle.prices) = 1
    /\ NumSymbols > 1

\* an open attempt on the second symbol, after the first one trailed upward
C24_TrailedBeforeAttempt ==
    /\ cycle.mode0 = "Idle"
    /\ cycle.opens = <<SYMBOLS[2]>>
    /\ reference_prices[SYMBOLS[1]] = Whole(cycle.prices[1])
    /\ cycle.refs_at_open[SYMBOLS[1]] = Whole(cycle.prices[1])
    /\ cycle.prices[1] > 100

====
